---- MODULE Spec2Model ----
(***************************************************************************)
(* Model of paws/components/model_loader.py (class ModelLoader).           *)
(*                                                                         *)
(* Four specifications share the module:                                   *)
(*   SpecLayer   the four likelihood-ratio layers (pure numeric functions) *)
(*               applied to inputs drawn from a grid of rationals;         *)
(*   Spec        the loader object: construction, the loss setter,         *)
(*               get_loss_fn, get_train_config, get_semi_weakly_weights    *)
(*               and get_supervised_model_inputs;                          *)
(*   SpecBuild   a constructed loader building a semi-weakly model, with   *)
(*               the prior-ratio files it looks for;                       *)
(*   SpecWeights the two weight setters applied to a Keras model.          *)
(*                                                                         *)
(* Tensors are modelled per event, as one scalar.  Scalars are exact       *)
(* rationals <<n, d>> in lowest terms with d > 0; a division by zero       *)
(* gives what IEEE arithmetic gives a tensor division: <<1, 0>> (+inf),    *)
(* <<-1, 0>> (-inf) or <<0, 0>> (NaN).                                     *)
(***************************************************************************)
EXTENDS Integers, Sequences, FiniteSets, TLC

VARIABLES
    x,        \* SpecLayer: the inputs of the layers (one event)
    out,      \* SpecLayer: the last layer applied and its output
    self,     \* Spec: the ModelLoader instance (its attributes)
    files,    \* Spec: the prior-ratio model files that exist on disk
    ret,      \* Spec: the last call on the loader and its outcome
    feature_metadata,  \* the caller's feature metadata dictionary
    keras_model        \* SpecWeights: the Keras model whose weights are set

vars == <<x, out, self, files, ret, feature_metadata, keras_model>>

(***************************************************************************)
(* Bounds of the model.                                                    *)
(***************************************************************************)
\* f_s, mu are drawn from {0, 1/GridN, ..., 1}
GridN == 4
\* the kappa strings handed to the builder hold at most MaxAtoms atoms
MaxAtoms == 3
\* get_supervised_model_inputs is called while the last dimension of
\* jet_features stays within MaxJetDim
MaxJetDim == 5
\* the Keras models whose weights are set have at most MaxWeights
\* trainable weights
MaxWeights == 2

(***************************************************************************)
(* Exact rational arithmetic with IEEE-style division by zero.             *)
(***************************************************************************)
Abs(a) == IF a < 0 THEN -a ELSE a

Sgn(a) == IF a < 0 THEN -1 ELSE IF a > 0 THEN 1 ELSE 0

RECURSIVE GCD(_, _)
GCD(a, b) == IF b = 0 THEN a ELSE GCD(b, a % b)

\* n/d in lowest terms, d > 0; n/0 is an infinity or NaN
Norm(n, d) ==
    IF d = 0 THEN <<Sgn(n), 0>>
    ELSE LET g == GCD(Abs(n), Abs(d))
         IN  <<(Sgn(d) * n) \div g, Abs(d) \div g>>

Rat(n, d) == Norm(n, d)

IsFinite(a) == a[2] # 0

IsNaN(a) == a[2] = 0 /\ a[1] = 0

RMul(a, b) ==
    IF a[2] = 0 \/ b[2] = 0 THEN <<Sgn(a[1]) * Sgn(b[1]), 0>>
    ELSE LET g1 == GCD(Abs(a[1]), b[2])
             g2 == GCD(Abs(b[1]), a[2])
             h1 == IF g1 = 0 THEN 1 ELSE g1
             h2 == IF g2 = 0 THEN 1 ELSE g2
         IN  Norm((a[1] \div h1) * (b[1] \div h2), (a[2] \div h2) * (b[2] \div h1))

RAdd(a, b) ==
    IF a[2] = 0 /\ b[2] = 0 THEN (IF a[1] = b[1] THEN a ELSE <<0, 0>>)
    ELSE IF a[2] = 0 THEN a
    ELSE IF b[2] = 0 THEN b
    ELSE LET g == GCD(a[2], b[2])
         IN  Norm(a[1] * (b[2] \div g) + b[1] * (a[2] \div g), (a[2] \div g) * b[2])

RNeg(a) == <<-a[1], a[2]>>

RSub(a, b) == RAdd(a, RNeg(b))

RDiv(a, b) ==
    IF b[2] = 0 THEN (IF a[2] = 0 \/ b[1] = 0 THEN <<0, 0>> ELSE <<0, 1>>)
    ELSE IF b[1] = 0 THEN <<Sgn(a[1]), 0>>
    ELSE RMul(a, <<Sgn(b[1]) * b[2], Abs(b[1])>>)

\* a <= b, for finite a and b
RLeq(a, b) == a[1] * b[2] <= b[1] * a[2]

Zero == <<0, 1>>
One == <<1, 1>>
Half == <<1, 2>>

(***************************************************************************)
(* The likelihood-ratio layers (static methods of ModelLoader).            *)
(***************************************************************************)
\* LLR = kappa * fs_out / (1. - fs_out + epsilon)
LLR(fs_out, kappa, epsilon) ==
    RDiv(RMul(kappa, fs_out), RAdd(RSub(One, fs_out), epsilon))

\* mutant of LLR_xs_one: "1. + mu * LLR - 1.", the parentheses lost
LLR_xs_one_unparenthesised(fs_out, mu, kappa, epsilon) ==
    RSub(RAdd(One, RMul(mu, LLR(fs_out, kappa, epsilon))), One)

\* LLR_xs = 1. + mu * (LLR - 1.)
LLR_xs_one(fs_out, mu, kappa, epsilon) ==
    RAdd(One, RMul(mu, RSub(LLR(fs_out, kappa, epsilon), One)))

\* mutant of LLR_xs_two: alpha weighs the two-prong mode
LLR_xs_two_swapped(fs_2_out, fs_3_out, mu, alpha, kappa_2, kappa_3, epsilon) ==
    LET LLR_2 == LLR(fs_2_out, kappa_2, epsilon)
        LLR_3 == LLR(fs_3_out, kappa_3, epsilon)
    IN  RAdd(One, RMul(mu, RSub(RAdd(RMul(alpha, LLR_2),
                                     RMul(RSub(One, alpha), LLR_3)), One)))

\* LLR_xs = 1. + mu * (alpha * LLR_3 + (1 - alpha) * LLR_2 - 1.)
LLR_xs_two(fs_2_out, fs_3_out, mu, alpha, kappa_2, kappa_3, epsilon) ==
    LET LLR_2 == LLR(fs_2_out, kappa_2, epsilon)
        LLR_3 == LLR(fs_3_out, kappa_3, epsilon)
    IN  RAdd(One, RMul(mu, RSub(RAdd(RMul(alpha, LLR_3),
                                     RMul(RSub(One, alpha), LLR_2)), One)))

\* mutant of ws_denominator: the bug_fix flag is ignored
ws_denominator_legacy_only(LLR_xs, mu, bug_fix) ==
    RAdd(LLR_xs, One)

\* mutant of ws_denominator: "LLR_xs - 1 + mu" in the bug_fix branch
ws_denominator_sign_slip(LLR_xs, mu, bug_fix) ==
    IF bug_fix THEN RAdd(RSub(LLR_xs, One), mu) ELSE RAdd(LLR_xs, One)

\* the denominator of ws_out: LLR_xs + 1 - mu (bug_fix) or LLR_xs + 1
ws_denominator(LLR_xs, mu, bug_fix) ==
    IF bug_fix THEN RSub(RAdd(LLR_xs, One), mu) ELSE RAdd(LLR_xs, One)

_get_one_signal_semi_weakly_layer(fs_out, mu, kappa, epsilon, bug_fix) ==
    LET LLR_xs == LLR_xs_one(fs_out, mu, kappa, epsilon)
    IN  RDiv(LLR_xs, ws_denominator(LLR_xs, mu, bug_fix))

_get_two_signal_semi_weakly_layer(fs_2_out, fs_3_out, mu, alpha, kappa_2, kappa_3, epsilon, bug_fix) ==
    LET LLR_xs == LLR_xs_two(fs_2_out, fs_3_out, mu, alpha, kappa_2, kappa_3, epsilon)
    IN  RDiv(LLR_xs, ws_denominator(LLR_xs, mu, bug_fix))

_get_one_signal_likelihood_layer(fs_out, mu, kappa, epsilon) ==
    LLR_xs_one(fs_out, mu, kappa, epsilon)

_get_two_signal_likelihood_layer(fs_2_out, fs_3_out, mu, alpha, kappa_2, kappa_3, epsilon) ==
    LLR_xs_two(fs_2_out, fs_3_out, mu, alpha, kappa_2, kappa_3, epsilon)

(***************************************************************************)
(* Inputs of the layers.                                                   *)
(***************************************************************************)
\* {0, 1/GridN, ..., 1}: outputs of a sigmoid-like classifier, and mu
Grid == {Rat(k, GridN) : k \in 0..GridN}

\* the branching fraction alpha
Alphas == {Zero, Half, One}

\* kappa is a ratio of priors, a positive number: one, and a value either
\* side of one
Kappas == {Half, One, Rat(3, 2)}

\* epsilon guards the division: a strictly positive constant
Epsilons == {Rat(1, 8), Rat(1, 100)}

LayerInputs ==
    [fs_2 : Grid, fs_3 : Grid, mu : Grid, alpha : Alphas,
     kappa_2 : Kappas, kappa_3 : Kappas, epsilon : Epsilons]

NoInputs ==
    [fs_2 |-> Zero, fs_3 |-> Zero, mu |-> Zero, alpha |-> Zero,
     kappa_2 |-> One, kappa_3 |-> One, epsilon |-> Rat(1, 8)]

NoOutput == [layer |-> "none", prong |-> 0, bug_fix |-> FALSE, value |-> Zero]

\* the supervised output and the kappa of one decay mode (2: qq, 3: qqq)
FsOf(prong) == IF prong = 2 THEN x.fs_2 ELSE x.fs_3
KappaOf(prong) == IF prong = 2 THEN x.kappa_2 ELSE x.kappa_3

(***************************************************************************)
(* The loader object and its configuration.                                *)
(***************************************************************************)
\* loss names a caller may hand to the constructor or to the setter
LossArgs == {"bce", "nll", "BCE", "mse"}

\* str.lower() on the loss names
LossLower(value) == IF value = "BCE" THEN "bce" ELSE value

\* decay_modes: two-prong "qq", three-prong "qqq"
DecayModeArgs == {<<"qq">>, <<"qq", "qqq">>}

FeatureLevels == {"high_level", "low_level"}

\* model_type arguments: None, or a name ModelType.parse accepts
ModelTypes == {"None", "dedicated_supervised", "ideal_weakly", "semi_weakly", "prior_ratio"}

\* Python's None, where a path, a list or a float is expected
None == <<>>

\* variables: None, or the indices of the selected jet features
VariablesArgs == {None, <<0, 2>>}

\* noise_dimension_per_jet: 0 (no noise dimension), or the number of
\* noise features of one jet
NoiseArgs == {0, 1}

NotConstructed ==
    [constructed |-> FALSE, _loss |-> "", decay_modes |-> <<>>,
     feature_level |-> "", use_validation |-> FALSE,
     variables |-> None, noise_dimension_per_jet |-> 0,
     semi_weakly_weight_models |-> <<>>, artifacts |-> <<>>]

\* ModelLoader.__init__: the arguments are stored as given (variables and
\* noise_dimension_per_jet are the attributes the base class keeps)
__init__(feature_level, decay_modes, variables, noise_dimension_per_jet, loss, use_validation) ==
    [constructed |-> TRUE, _loss |-> loss, decay_modes |-> decay_modes,
     feature_level |-> feature_level, use_validation |-> use_validation,
     variables |-> variables, noise_dimension_per_jet |-> noise_dimension_per_jet,
     semi_weakly_weight_models |-> <<>>, artifacts |-> <<>>]

NoCall == [op |-> "none"]

Raise(op, args, error) ==
    [op |-> op, args |-> args, status |-> "error", error |-> error]

Return(op, args, value) ==
    [op |-> op, args |-> args, status |-> "ok", error |-> "none", value |-> value]

\* the loss setter: lower-cases, validates, stores
loss_setter(obj, value) ==
    LET v == LossLower(value)
    IN  IF v \notin {"bce", "nll"}
        THEN [obj |-> obj, ret |-> Raise("loss.setter", [value |-> value], "ValueError")]
        ELSE [obj |-> [obj EXCEPT !._loss = v],
              ret |-> Return("loss.setter", [value |-> value], "None")]

\* mutant of get_loss_fn: the model type is not checked for the nll loss
get_loss_fn_unguarded(obj, model_type) ==
    IF obj._loss = "bce"
    THEN IF model_type # "None" /\ model_type \in {"semi_weakly", "ideal_weakly"}
         THEN [error |-> "none", value |-> "ScaledBinaryCrossentropy"]
         ELSE [error |-> "none", value |-> "binary_crossentropy"]
    ELSE IF obj._loss = "nll"
    THEN [error |-> "none", value |-> "ScaledNLLLoss"]
    ELSE [error |-> "ValueError", value |-> "none"]

\* get_loss_fn: a loss name or object, or an error name
get_loss_fn(obj, model_type) ==
    IF obj._loss = "bce"
    THEN IF model_type # "None" /\ model_type \in {"semi_weakly", "ideal_weakly"}
         THEN [error |-> "none", value |-> "ScaledBinaryCrossentropy"]
         ELSE [error |-> "none", value |-> "binary_crossentropy"]
    ELSE IF obj._loss = "nll"
    THEN IF model_type # "None" /\ model_type \notin {"semi_weakly"}
         THEN [error |-> "RuntimeError", value |-> "none"]
         ELSE [error |-> "none", value |-> "ScaledNLLLoss"]
    ELSE [error |-> "ValueError", value |-> "none"]

\* LoggerSaveMode.parse(model_save_freq) == LoggerSaveMode.TRAIN
IsTrainSaveMode(save_freq) == save_freq = "train"

SaveFreqs == {"epoch", "batch", "train"}

\* epochs argument: None (0) or a number of epochs
EpochArgs == {0, 50}

\* mutant of callbacks_of: model_checkpoint is never popped
callbacks_of_keep_checkpoint(obj, model_type, model_save_freq, patience) ==
    LET semi == model_type # "None" /\ model_type = "semi_weakly"
        keys == {"lr_scheduler", "early_stopping", "metrics_logger", "model_checkpoint"}
                 \cup (IF semi THEN {"weights_logger"} ELSE {})
    IN  [k \in keys |->
           CASE k = "lr_scheduler" ->
                  IF semi
                  THEN [initial_lr |-> Rat(1, 100), lr_decay_factor |-> Half,
                        patience |-> 5, min_lr |-> Rat(1, 1000000), verbose |-> TRUE]
                  ELSE [initial_lr |-> Rat(1, 1000), lr_decay_factor |-> Half,
                        patience |-> 5, min_lr |-> Rat(1, 1000000)]
             [] k = "early_stopping" ->
                  [monitor |-> IF obj.use_validation THEN "val_loss" ELSE "loss",
                   patience |-> IF semi
                                THEN (IF obj._loss = "nll" THEN 30 ELSE 20)
                                ELSE patience,
                   restore_best_weights |-> TRUE,
                   always_restore_best_weights |-> TRUE]
             [] k = "model_checkpoint" ->
                  [save_weights_only |-> TRUE, save_best_only |-> FALSE,
                   save_freq |-> model_save_freq]
             [] k = "metrics_logger" -> [save_freq |-> "epoch"]
             [] k = "weights_logger" -> [save_freq |-> "epoch", display_weight |-> TRUE]]

\* mutant of callbacks_of: the patience of the feature level is kept for
\* semi-weakly models
callbacks_of_feature_patience(obj, model_type, model_save_freq, patience) ==
    LET semi == model_type # "None" /\ model_type = "semi_weakly"
        keys == ({"lr_scheduler", "early_stopping", "metrics_logger"}
                 \cup (IF IsTrainSaveMode(model_save_freq) THEN {} ELSE {"model_checkpoint"}))
                 \cup (IF semi THEN {"weights_logger"} ELSE {})
    IN  [k \in keys |->
           CASE k = "lr_scheduler" ->
                  IF semi
                  THEN [initial_lr |-> Rat(1, 100), lr_decay_factor |-> Half,
                        patience |-> 5, min_lr |-> Rat(1, 1000000), verbose |-> TRUE]
                  ELSE [initial_lr |-> Rat(1, 1000), lr_decay_factor |-> Half,
                        patience |-> 5, min_lr |-> Rat(1, 1000000)]
             [] k = "early_stopping" ->
                  [monitor |-> IF obj.use_validation THEN "val_loss" ELSE "loss",
                   patience |-> patience,
                   restore_best_weights |-> TRUE,
                   always_restore_best_weights |-> TRUE]
             [] k = "model_checkpoint" ->
                  [save_weights_only |-> TRUE, save_best_only |-> FALSE,
                   save_freq |-> model_save_freq]
             [] k = "metrics_logger" -> [save_freq |-> "epoch"]
             [] k = "weights_logger" -> [save_freq |-> "epoch", display_weight |-> TRUE]]

\* the callbacks mapping of the general config, lines 228-279
callbacks_of(obj, model_type, model_save_freq, patience) ==
    LET semi == model_type # "None" /\ model_type = "semi_weakly"
        keys == ({"lr_scheduler", "early_stopping", "metrics_logger"}
                 \cup (IF IsTrainSaveMode(model_save_freq) THEN {} ELSE {"model_checkpoint"}))
                 \cup (IF semi THEN {"weights_logger"} ELSE {})
    IN  [k \in keys |->
           CASE k = "lr_scheduler" ->
                  IF semi
                  THEN [initial_lr |-> Rat(1, 100), lr_decay_factor |-> Half,
                        patience |-> 5, min_lr |-> Rat(1, 1000000), verbose |-> TRUE]
                  ELSE [initial_lr |-> Rat(1, 1000), lr_decay_factor |-> Half,
                        patience |-> 5, min_lr |-> Rat(1, 1000000)]
             [] k = "early_stopping" ->
                  [monitor |-> IF obj.use_validation THEN "val_loss" ELSE "loss",
                   patience |-> IF semi
                                THEN (IF obj._loss = "nll" THEN 30 ELSE 20)
                                ELSE patience,
                   restore_best_weights |-> TRUE,
                   always_restore_best_weights |-> TRUE]
             [] k = "model_checkpoint" ->
                  [save_weights_only |-> TRUE, save_best_only |-> FALSE,
                   save_freq |-> model_save_freq]
             [] k = "metrics_logger" -> [save_freq |-> "epoch"]
             [] k = "weights_logger" -> [save_freq |-> "epoch", display_weight |-> TRUE]]

\* mutant of optimizer_config_of: clipnorm is left out
optimizer_config_of_no_clipnorm(model_type, weight_clipping) ==
    IF model_type # "None" /\ model_type = "semi_weakly" /\ weight_clipping
    THEN [learning_rate |-> Rat(1, 100), clipvalue |-> Rat(1, 10000)]
    ELSE [learning_rate |-> Rat(1, 100)]

\* optimizer_config of the general config, lines 226 and 262-268
optimizer_config_of(model_type, weight_clipping) ==
    IF model_type # "None" /\ model_type = "semi_weakly" /\ weight_clipping
    THEN [learning_rate |-> Rat(1, 100), clipvalue |-> Rat(1, 10000),
          clipnorm |-> Rat(1, 10000)]
    ELSE [learning_rate |-> Rat(1, 100)]

\* get_train_config
get_train_config(obj, model_type, weight_clipping, epochs, model_save_freq) ==
    IF model_type # "None" /\ model_type = "prior_ratio"
    THEN [error |-> "none",
          value |-> [loss |-> "MSE",
                     epochs |-> IF epochs # 0 THEN epochs ELSE 3000,
                     optimizer |-> "Adam",
                     optimizer_config |-> [learning_rate |-> Rat(1, 1000)],
                     checkpoint_dir |-> "checkpoint_dir",
                     callbacks |-> [k \in {"early_stopping"} |->
                                      [monitor |-> "val_loss", patience |-> 200,
                                       restore_best_weights |-> TRUE,
                                       always_restore_best_weights |-> TRUE]]]]
    ELSE IF obj.feature_level \notin {"high_level", "low_level"}
    THEN [error |-> "RuntimeError", value |-> "none"]
    ELSE LET high == obj.feature_level = "high_level"
             ep == IF epochs # 0 THEN epochs ELSE (IF high THEN 200 ELSE 20)
             patience == IF high THEN 20 ELSE 5
             loss_fn == get_loss_fn(obj, model_type)
         IN  IF loss_fn.error # "none"
             THEN [error |-> loss_fn.error, value |-> "none"]
             ELSE [error |-> "none",
                   value |-> [loss |-> loss_fn.value,
                              metrics |-> <<"accuracy">>,
                              epochs |-> ep,
                              optimizer |-> "Adam",
                              optimizer_config |-> optimizer_config_of(model_type, weight_clipping),
                              checkpoint_dir |-> "checkpoint_dir",
                              callbacks |-> callbacks_of(obj, model_type, model_save_freq, patience)]]

(***************************************************************************)
(* The inputs of a supervised model.                                       *)
(*                                                                         *)
(* feature_metadata maps a feature name to its metadata, a dictionary      *)
(* with a dtype and a shape (a list).  dict.copy() copies the outer        *)
(* dictionary only: the metadata dictionaries and the shape lists of the   *)
(* copy are the caller's objects.                                          *)
(***************************************************************************)
\* the feature_metadata the caller holds before the first call
FeatureMetadata ==
    [jet_features |-> [dtype |-> "float64", shape |-> <<2, 3>>],
     part_coords |-> [dtype |-> "float32", shape |-> <<2, 4, 2>>]]

label_map(feature) ==
    CASE feature = "part_coords" -> "points"
      [] feature = "part_features" -> "features"
      [] feature = "part_masks" -> "masks"
      [] OTHER -> feature

\* get_supervised_model_inputs: the inputs returned, and the caller's
\* feature_metadata after the call
get_supervised_model_inputs(obj, metadata_given, downcast) ==
    LET cast == [feature \in DOMAIN metadata_given |->
                   IF downcast /\ metadata_given[feature].dtype = "float64"
                   THEN [metadata_given[feature] EXCEPT !.dtype = "float32"]
                   ELSE metadata_given[feature]]
        shape == cast["jet_features"].shape
        selected == IF obj.variables # None
                    THEN [shape EXCEPT ![Len(shape)] = Len(obj.variables)]
                    ELSE shape
        noised == IF obj.noise_dimension_per_jet # 0
                  THEN [selected EXCEPT ![Len(shape)] = @ + obj.noise_dimension_per_jet]
                  ELSE selected
        tmp_metadata == [cast EXCEPT !["jet_features"].shape = noised]
        keys == {label_map(feature) : feature \in DOMAIN tmp_metadata}
    IN  [feature_metadata |-> tmp_metadata,
         inputs |-> [key \in keys |->
                       LET feature == CHOOSE f \in DOMAIN tmp_metadata : label_map(f) = key
                       IN  [name |-> feature, dtype |-> tmp_metadata[feature].dtype,
                            shape |-> tmp_metadata[feature].shape]]]

(***************************************************************************)
(* The semi-weakly model builder.                                          *)
(*                                                                         *)
(* A path is <<directory, basename>>.  A string kappa is the sequence of   *)
(* its comma-separated fields, "2,,x" being <<"2", "", "x">>; a numeric    *)
(* kappa is a rational.                                                    *)
(***************************************************************************)
\* the fields a kappa string is made of
Atoms == {"", "2", "Inferred", "sampled", "x"}

\* str.lower() on a field
Lower(a) == IF a = "Inferred" THEN "inferred" ELSE a

\* the fields float() parses, and what it returns
IsNumeric(a) == a = "2"
FloatOf(a) == Rat(2, 1)

RECURSIVE SeqsUpTo(_, _)
SeqsUpTo(S, n) ==
    IF n = 0 THEN {<<>>}
    ELSE LET shorter == SeqsUpTo(S, n - 1)
         IN  shorter \cup {Append(q, a) : q \in {r \in shorter : Len(r) = n - 1}, a \in S}

KappaArgs ==
    {[type |-> "num", val |-> One]}
    \cup {[type |-> "str", fields |-> f] : f \in SeqsUpTo(Atoms, MaxAtoms) \ {<<>>}}

\* fs_model_path and fs_model_path_2 (None: <<>>)
FsModelPath == <<"dirA", "supervised">>
FsModelPath2 == <<"dirB", "supervised">>

\* os.path.dirname
dirname(path) == path[1]

\* path_manager.get_file("model_prior_ratio", basename_only=True, sampling_method=val)
prior_ratio_basename(val) == val

\* the prior-ratio model files that may exist
PriorRatioFiles == {<<d, m>> : d \in {"dirA", "dirB"}, m \in {"inferred", "sampled"}}

\* split_str(kappa, sep=',', remove_empty=True)
split_str(fields) == SelectSeq(fields, LAMBDA a : a # "")

\* paws.utils.get_parameter_transform and get_parameter_regularizer: the
\* registries keyed by the parameter name
get_parameter_transform(parameter) == <<"transform", parameter>>
get_parameter_regularizer(parameter) == <<"regularizer", parameter>>

\* get_single_parameter_model: one Dense(1, use_bias=False) layer called `name`
get_single_parameter_model(activation, kernel_initializer, kernel_regularizer, trainable, name) ==
    [name |-> name, activation |-> activation, kernel_initializer |-> kernel_initializer,
     kernel_regularizer |-> kernel_regularizer, trainable |-> trainable]

ParameterNames == {"m1", "m2", "mu", "alpha"}

\* mutant of get_semi_weakly_weights: mu and alpha are tested for truth,
\* not against None
get_semi_weakly_weights_truthy(m1, m2, mu, alpha, use_regularizer) ==
    LET regularizers == [parameter \in ParameterNames |->
                           IF use_regularizer THEN get_parameter_regularizer(parameter)
                           ELSE None]
        initial == [parameter \in ParameterNames |->
                      CASE parameter = "m1" -> m1 [] parameter = "m2" -> m2
                        [] parameter = "mu" -> mu [] parameter = "alpha" -> alpha]
        keys == ({"m1", "m2"} \cup (IF mu # None /\ mu # Zero THEN {"mu"} ELSE {}))
                \cup (IF alpha # None /\ alpha # Zero THEN {"alpha"} ELSE {})
    IN  [parameter \in keys |->
           get_single_parameter_model(get_parameter_transform(parameter),
                                      initial[parameter], regularizers[parameter],
                                      TRUE, parameter)]

\* get_semi_weakly_weights: the mapping from parameter names to parameter
\* models (None: <<>>)
get_semi_weakly_weights(m1, m2, mu, alpha, use_regularizer) ==
    LET regularizers == [parameter \in ParameterNames |->
                           IF use_regularizer THEN get_parameter_regularizer(parameter)
                           ELSE None]
        initial == [parameter \in ParameterNames |->
                      CASE parameter = "m1" -> m1 [] parameter = "m2" -> m2
                        [] parameter = "mu" -> mu [] parameter = "alpha" -> alpha]
        keys == ({"m1", "m2"} \cup (IF mu # None THEN {"mu"} ELSE {}))
                \cup (IF alpha # None THEN {"alpha"} ELSE {})
    IN  [parameter \in keys |->
           get_single_parameter_model(get_parameter_transform(parameter),
                                      initial[parameter], regularizers[parameter],
                                      TRUE, parameter)]

\* the initial values a build passes for m1, m2 and for a given mu or alpha
\* (the build reads only whether mu and alpha are None)
build_weights(args) ==
    get_semi_weakly_weights(Zero, Zero, IF args.mu_given THEN Half ELSE None,
                            IF args.alpha_given THEN Half ELSE None, TRUE)

\* fs_model_path as a str, or as a list of str
PathStr(path) == [type |-> "str", paths |-> <<path>>]
PathList(paths) == [type |-> "list", paths |-> paths]

\* the second supervised model of an ensemble
FsModelPathB == <<"dirA", "supervised_b">>

FsModelPathArgs == {PathStr(FsModelPath), PathList(<<FsModelPath, FsModelPathB>>)}

\* load_model: the model saved at model_path, its layers trainable
load_model(model_path) ==
    [path |-> model_path,
     name |-> IF model_path[2] \in {"inferred", "sampled"} THEN "PriorRatioNet"
              ELSE "HighLevel",
     layers |-> <<[name |-> "dense", trainable |-> TRUE],
                  [name |-> "dense_1", trainable |-> TRUE]>>]

\* mutant of freeze_all_layers: the last layer is left as it is
freeze_all_layers_but_last(model) ==
    [model EXCEPT !.layers = [i \in DOMAIN model.layers |->
                                IF i < Len(model.layers)
                                THEN [model.layers[i] EXCEPT !.trainable = FALSE]
                                ELSE model.layers[i]]]

\* freeze_all_layers
freeze_all_layers(model) ==
    [model EXCEPT !.layers = [i \in DOMAIN model.layers |->
                                [model.layers[i] EXCEPT !.trainable = FALSE]]]

\* _get_prior_out: the models loaded, frozen and named "<name>_<i>", and
\* the average of their outputs
_get_prior_out(model_paths, name) ==
    LET paths == model_paths.paths
        prior_models == [i \in DOMAIN paths |->
                           [freeze_all_layers(load_model(paths[i]))
                              EXCEPT !.name = <<name, i>>]]
    IN  [io |-> [i \in DOMAIN paths |-> [call |-> "load_model", path |-> paths[i]]],
         prior_models |-> prior_models,
         out |-> [layer |-> "Average", of |-> prior_models]]

\* float(val) of a string given by its fields: one numeric field, no comma
float_of_str(fields) ==
    IF Len(fields) = 1 /\ IsNumeric(fields[1])
    THEN [error |-> "none", io |-> <<>>,
          value |-> [kind |-> "float", val |-> FloatOf(fields[1])]]
    ELSE [error |-> "ValueError", io |-> <<>>]

\* mutant of get_kappa_out: the prior-ratio file is loaded without the
\* os.path.exists check
get_kappa_out_unchecked(val, supervised_model_path, name, fs) ==
    IF val.type = "num"
    THEN [error |-> "none", io |-> <<>>, value |-> [kind |-> "float", val |-> val.val]]
    ELSE IF Len(val.fields) = 1 /\ Lower(val.fields[1]) \in {"inferred", "sampled"}
    THEN IF supervised_model_path.type # "str"
         THEN [error |-> "TypeError", io |-> <<>>]
         ELSE
         LET model_path == <<dirname(supervised_model_path.paths[1]),
                             prior_ratio_basename(Lower(val.fields[1]))>>
             prior_model == load_model(model_path)
             named == IF name # "None" THEN [prior_model EXCEPT !.name = name]
                      ELSE prior_model
         IN  [error |-> "none",
              io |-> <<[call |-> "load_model", path |-> model_path]>>,
              value |-> [kind |-> "tensor", model |-> freeze_all_layers(named),
                         input |-> "mass_params"]]
    ELSE float_of_str(val.fields)

\* get_kappa_out (the closure of _get_semi_weakly_model), on the disk `fs`;
\* os.path.dirname of a list of paths is a TypeError
get_kappa_out(val, supervised_model_path, name, fs) ==
    IF val.type = "num"
    THEN [error |-> "none", io |-> <<>>, value |-> [kind |-> "float", val |-> val.val]]
    ELSE IF Len(val.fields) = 1 /\ Lower(val.fields[1]) \in {"inferred", "sampled"}
    THEN IF supervised_model_path.type # "str"
         THEN [error |-> "TypeError", io |-> <<>>]
         ELSE
         LET model_path == <<dirname(supervised_model_path.paths[1]),
                             prior_ratio_basename(Lower(val.fields[1]))>>
             exists == [call |-> "exists", path |-> model_path]
             prior_model == load_model(model_path)
             named == IF name # "None" THEN [prior_model EXCEPT !.name = name]
                      ELSE prior_model
         IN  IF model_path \notin fs
             THEN [error |-> "FileNotFoundError", io |-> <<exists>>]
             ELSE [error |-> "none",
                   io |-> <<exists, [call |-> "load_model", path |-> model_path]>>,
                   value |-> [kind |-> "tensor", model |-> freeze_all_layers(named),
                              input |-> "mass_params"]]
    ELSE float_of_str(val.fields)

\* a token of the kappa string, as a string of its own
Token(a) == [type |-> "str", fields |-> <<a>>]

\* epsilon arguments: the default of get_semi_weakly_model, and that of
\* _get_semi_weakly_model
EpsilonArgs == {"1e-5", "1e-10"}

\* the arguments of a build: every kappa with mu and alpha given, and the
\* numeric kappa with mu or alpha left out (None)
BuildArgs ==
    [fs_model_path : FsModelPathArgs,
     fs_model_path_2 : {None, FsModelPath2}, mu_given : {TRUE}, alpha_given : {TRUE},
     kappa : KappaArgs, epsilon : EpsilonArgs, bug_fix : BOOLEAN]
    \cup
    [fs_model_path : FsModelPathArgs,
     fs_model_path_2 : {None, FsModelPath2}, mu_given : BOOLEAN, alpha_given : BOOLEAN,
     kappa : {[type |-> "num", val |-> One]}, epsilon : EpsilonArgs, bug_fix : BOOLEAN]

\* the outcome of a build: the loader afterwards, and what the caller sees
BuildRaise(obj, args, error, io, kappa_outs) ==
    [obj |-> obj,
     ret |-> [op |-> "get_semi_weakly_model", args |-> args, status |-> "error",
              error |-> error, io |-> io, kappa_outs |-> kappa_outs]]

BuildReturn(obj, args, ws_model, io, kappa_outs) ==
    [obj |-> obj,
     ret |-> [op |-> "get_semi_weakly_model", args |-> args, status |-> "ok",
              error |-> "none", value |-> ws_model, io |-> io, kappa_outs |-> kappa_outs]]

\* the local names bound when the artifacts are built (lines 628 and 663)
bound_locals(multi_signal) ==
    IF multi_signal
    THEN {"kappa_2", "kappa_3", "kappa_2_out", "kappa_3_out", "fs_2_out", "fs_3_out", "ws_out"}
    ELSE {"fs_out", "kappa_out", "ws_out"}

\* the models loaded for a resolved kappa
kappa_models(kappa_out) ==
    IF kappa_out.kind = "tensor" THEN <<kappa_out.model>> ELSE <<>>

\* tf.keras.Model(inputs=train_inputs, outputs=ws_out, name='SemiWeakly'):
\* its trainable weights are the kernels of the trainable parameter models
\* ws_out is computed from, and of the trainable layers of the loaded models
Model(ws_out, parameters, loaded_models, weights) ==
    [name |-> "SemiWeakly", output |-> ws_out, models |-> loaded_models,
     trainable_weights |->
        {<<parameter, "kernel:0">> :
            parameter \in {q \in parameters \cap DOMAIN weights : weights[q].trainable}}
        \cup UNION {{<<loaded_models[i].layers[j].name, "kernel:0">> :
                       j \in {l \in DOMAIN loaded_models[i].layers :
                                loaded_models[i].layers[l].trainable}} :
                    i \in DOMAIN loaded_models}]

\* the single-signal branch, lines 616-630
build_one_signal(obj, fs, args) ==
    LET prior == _get_prior_out(args.fs_model_path, "prior")
        k == get_kappa_out(args.kappa, args.fs_model_path, "None", fs)
        io == prior.io \o k.io
    IN  IF k.error # "none" THEN BuildRaise(obj, args, k.error, io, <<>>)
        ELSE LET ws_out ==
                   IF obj._loss # "nll"
                   THEN [layer |-> "one_signal_semi_weakly", fs_out |-> prior.out,
                         kappa |-> k.value, epsilon |-> args.epsilon,
                         bug_fix |-> args.bug_fix]
                   ELSE [layer |-> "one_signal_likelihood", fs_out |-> prior.out,
                         kappa |-> k.value, epsilon |-> args.epsilon]
                 arts == [n \in {"llr_model", "fs_model"} |->
                            IF n = "llr_model"
                            THEN [name |-> "LLR", kappa |-> k.value,
                                  fs_out |-> prior.out, epsilon |-> "1e-10"]
                            ELSE [name |-> "Supervised", fs_out |-> prior.out]]
             IN  BuildReturn([obj EXCEPT !.artifacts = arts], args,
                             Model(ws_out, {"m1", "m2", "mu"},
                                   prior.prior_models \o kappa_models(k.value),
                                   obj.semi_weakly_weight_models),
                             io, <<k.value>>)

\* mutant of kappa_2_3: the two tokens are unpacked in the other order
kappa_2_3_swapped(kappa) ==
    IF kappa.type = "str"
    THEN LET tokens == split_str(kappa.fields)
         IN  IF Len(tokens) = 1
             THEN [error |-> "none", kappa_2 |-> Token(tokens[1]), kappa_3 |-> Token(tokens[1])]
             ELSE IF Len(tokens) = 2
             THEN [error |-> "none", kappa_2 |-> Token(tokens[2]), kappa_3 |-> Token(tokens[1])]
             ELSE [error |-> "ValueError"]
    ELSE [error |-> "none", kappa_2 |-> kappa, kappa_3 |-> kappa]

\* the kappa of each decay mode, lines 632-641
kappa_2_3(kappa) ==
    IF kappa.type = "str"
    THEN LET tokens == split_str(kappa.fields)
         IN  IF Len(tokens) = 1
             THEN [error |-> "none", kappa_2 |-> Token(tokens[1]), kappa_3 |-> Token(tokens[1])]
             ELSE IF Len(tokens) = 2
             THEN [error |-> "none", kappa_2 |-> Token(tokens[1]), kappa_3 |-> Token(tokens[2])]
             ELSE [error |-> "ValueError"]
    ELSE [error |-> "none", kappa_2 |-> kappa, kappa_3 |-> kappa]

\* the two-signal branch, lines 632-668
build_two_signal(obj, fs, args) ==
    LET ks == kappa_2_3(args.kappa)
    IN  IF ks.error # "none" THEN BuildRaise(obj, args, ks.error, <<>>, <<>>)
        ELSE
        LET k2 == get_kappa_out(ks.kappa_2, args.fs_model_path, "PriorRatioNet_2", fs)
        IN  IF k2.error # "none" THEN BuildRaise(obj, args, k2.error, k2.io, <<>>)
            ELSE
            LET k3 == get_kappa_out(ks.kappa_3, PathStr(args.fs_model_path_2),
                                    "PriorRatioNet_3", fs)
            IN  IF k3.error # "none"
                THEN BuildRaise(obj, args, k3.error, k2.io \o k3.io, <<k2.value>>)
                ELSE
                LET p2 == _get_prior_out(args.fs_model_path, "prior_2prong")
                    p3 == _get_prior_out(PathStr(args.fs_model_path_2), "prior_3prong")
                    io == k2.io \o k3.io \o p2.io \o p3.io
                    kouts == <<k2.value, k3.value>>
                    ws_out ==
                      IF obj._loss # "nll"
                      THEN [layer |-> "two_signal_semi_weakly", fs_2_out |-> p2.out,
                            fs_3_out |-> p3.out, kappa_2 |-> k2.value,
                            kappa_3 |-> k3.value, epsilon |-> args.epsilon,
                            bug_fix |-> args.bug_fix]
                      ELSE [layer |-> "two_signal_likelihood", fs_2_out |-> p2.out,
                            fs_3_out |-> p3.out, kappa_2 |-> k2.value,
                            kappa_3 |-> k3.value, epsilon |-> args.epsilon]
                    \* lines 663-664 read the local kappa_out
                    kappa_out == k2.value
                    arts == [n \in {"llr_2_model", "llr_3_model", "fs_2_model", "fs_3_model"} |->
                               CASE n = "llr_2_model" ->
                                      [name |-> "TwoProngLLR", kappa |-> kappa_out,
                                       fs_out |-> p2.out, epsilon |-> "1e-10"]
                                 [] n = "llr_3_model" ->
                                      [name |-> "ThreeProngLLR", kappa |-> kappa_out,
                                       fs_out |-> p3.out, epsilon |-> "1e-10"]
                                 [] n = "fs_2_model" ->
                                      [name |-> "TwoProngSupervised", fs_out |-> p2.out]
                                 [] n = "fs_3_model" ->
                                      [name |-> "ThreeProngSupervised", fs_out |-> p3.out]]
                IN  IF "kappa_out" \notin bound_locals(TRUE)
                    THEN BuildRaise(obj, args, "UnboundLocalError", io, kouts)
                    ELSE BuildReturn([obj EXCEPT !.artifacts = arts], args,
                                     Model(ws_out, {"m1", "m2", "mu", "alpha"},
                                           kappa_models(k2.value) \o kappa_models(k3.value)
                                             \o p2.prior_models \o p3.prior_models,
                                           obj.semi_weakly_weight_models),
                                     io, kouts)

\* mutant of _get_semi_weakly_model: fs_model_path_2 is checked where it is
\* first used, after the first supervised model is loaded
_get_semi_weakly_model_late_guard(obj, fs, args) ==
    LET weights == build_weights(args)
        obj1 == [obj EXCEPT !.semi_weakly_weight_models = weights]
        multi_signal == Len(obj.decay_modes) > 1
    IN  IF "mu" \notin DOMAIN weights \/ "alpha" \notin DOMAIN weights
        THEN BuildRaise(obj1, args, "KeyError", <<>>, <<>>)
        ELSE IF multi_signal /\ args.fs_model_path_2 = None
        THEN BuildRaise(obj1, args, "ValueError",
                        _get_prior_out(args.fs_model_path, "prior_2prong").io, <<>>)
        ELSE IF ~multi_signal THEN build_one_signal(obj1, fs, args)
        ELSE build_two_signal(obj1, fs, args)

\* _get_semi_weakly_model (reached through get_semi_weakly_model)
_get_semi_weakly_model(obj, fs, args) ==
    LET weights == build_weights(args)
        obj1 == [obj EXCEPT !.semi_weakly_weight_models = weights]
        multi_signal == Len(obj.decay_modes) > 1
    IN  IF "mu" \notin DOMAIN weights \/ "alpha" \notin DOMAIN weights
        THEN BuildRaise(obj1, args, "KeyError", <<>>, <<>>)
        ELSE IF multi_signal /\ args.fs_model_path_2 = None
        THEN BuildRaise(obj1, args, "ValueError", <<>>, <<>>)
        ELSE IF ~multi_signal THEN build_one_signal(obj1, fs, args)
        ELSE build_two_signal(obj1, fs, args)

(***************************************************************************)
(* The weight setters.                                                     *)
(*                                                                         *)
(* A weight name "m1/kernel:0" is <<"m1", "kernel:0">>.                    *)
(***************************************************************************)
NoModel == [trainable_weights |-> <<>>]

\* the names the trainable weights of a model may have
WeightNames == {<<"m1", "kernel:0">>, <<"mu", "kernel:0">>, <<"dense", "kernel:0">>}

\* the models handed to the setters: distinct weights, all at 0
ModelArgs ==
    {[trainable_weights |-> [i \in DOMAIN names |-> [name |-> names[i], value |-> Zero]]] :
       names \in {q \in SeqsUpTo(WeightNames, MaxWeights) \ {<<>>} :
                    \A i, j \in DOMAIN q : i # j => q[i] # q[j]}}

\* the values a weight is set to (None: the weight is left alone)
ValueArgs == {None, One}

\* the values argument of set_model_weights: a dict from names, or a list
ValuesArgs ==
    {[type |-> "dict", items |-> [name \in names |-> One]] :
       names \in SUBSET {"m1", "mu", "zz"}}
    \cup {[type |-> "list", items |-> q] : q \in SeqsUpTo({One}, MaxWeights + 1)}

assign_weight(weight, value) == [weight EXCEPT !.value = value]

\* set_semi_weakly_model_weights: the model afterwards and the error raised;
\* the loop stops at the first weight whose name is not in weight_dict
set_semi_weakly_model_weights(ws_model, m1, m2, mu, alpha) ==
    LET weight_dict ==
          [name \in {<<"m1", "kernel:0">>, <<"m2", "kernel:0">>,
                     <<"mu", "kernel:0">>, <<"alpha", "kernel:0">>} |->
             CASE name[1] = "m1" -> m1 [] name[1] = "m2" -> m2
               [] name[1] = "mu" -> mu [] name[1] = "alpha" -> alpha]
        weights == ws_model.trainable_weights
        unknown == {i \in DOMAIN weights : weights[i].name \notin DOMAIN weight_dict}
        stop == IF unknown = {} THEN Len(weights) + 1
                ELSE CHOOSE i \in unknown : \A j \in unknown : i <= j
    IN  [error |-> IF unknown = {} THEN "none" ELSE "RuntimeError",
         model |-> [ws_model EXCEPT !.trainable_weights =
                      [i \in DOMAIN weights |->
                         IF i < stop /\ weight_dict[weights[i].name] # None
                         THEN assign_weight(weights[i], weight_dict[weights[i].name])
                         ELSE weights[i]]]]

\* set_model_weights: a dict sets the weights it names, a list sets the
\* weights by position
set_model_weights(model, values) ==
    LET weights == model.trainable_weights
    IN  IF values.type = "dict"
        THEN [error |-> "none",
              model |-> [model EXCEPT !.trainable_weights =
                           [i \in DOMAIN weights |->
                              IF weights[i].name[1] \in DOMAIN values.items
                              THEN assign_weight(weights[i], values.items[weights[i].name[1]])
                              ELSE weights[i]]]]
        ELSE [error |-> IF Len(values.items) > Len(weights) THEN "IndexError" ELSE "none",
              model |-> [model EXCEPT !.trainable_weights =
                           [i \in DOMAIN weights |->
                              IF i <= Len(values.items)
                              THEN assign_weight(weights[i], values.items[i])
                              ELSE weights[i]]]]

(***************************************************************************)
(* SpecLayer: the layers applied to one event.                             *)
(***************************************************************************)
InitLayer ==
    /\ x \in LayerInputs
    /\ out = NoOutput
    /\ self = NotConstructed
    /\ files = {}
    /\ ret = NoCall
    /\ feature_metadata = FeatureMetadata
    /\ keras_model = NoModel

OneSignalSemiWeakly ==
    /\ out.layer = "none"
    /\ \E prong \in {2, 3}, bug_fix \in BOOLEAN :
         out' = [layer |-> "one_signal_semi_weakly", prong |-> prong, bug_fix |-> bug_fix,
                 value |-> _get_one_signal_semi_weakly_layer(
                             FsOf(prong), x.mu, KappaOf(prong), x.epsilon, bug_fix)]
    /\ UNCHANGED <<x, self, files, ret, feature_metadata, keras_model>>

TwoSignalSemiWeakly ==
    /\ out.layer = "none"
    /\ \E bug_fix \in BOOLEAN :
         out' = [layer |-> "two_signal_semi_weakly", prong |-> 0, bug_fix |-> bug_fix,
                 value |-> _get_two_signal_semi_weakly_layer(
                             x.fs_2, x.fs_3, x.mu, x.alpha,
                             x.kappa_2, x.kappa_3, x.epsilon, bug_fix)]
    /\ UNCHANGED <<x, self, files, ret, feature_metadata, keras_model>>

OneSignalLikelihood ==
    /\ out.layer = "none"
    /\ \E prong \in {2, 3} :
         out' = [layer |-> "one_signal_likelihood", prong |-> prong, bug_fix |-> FALSE,
                 value |-> _get_one_signal_likelihood_layer(
                             FsOf(prong), x.mu, KappaOf(prong), x.epsilon)]
    /\ UNCHANGED <<x, self, files, ret, feature_metadata, keras_model>>

TwoSignalLikelihood ==
    /\ out.layer = "none"
    /\ out' = [layer |-> "two_signal_likelihood", prong |-> 0, bug_fix |-> FALSE,
               value |-> _get_two_signal_likelihood_layer(
                           x.fs_2, x.fs_3, x.mu, x.alpha,
                           x.kappa_2, x.kappa_3, x.epsilon)]
    /\ UNCHANGED <<x, self, files, ret, feature_metadata, keras_model>>

NextLayer ==
    \/ OneSignalSemiWeakly
    \/ TwoSignalSemiWeakly
    \/ OneSignalLikelihood
    \/ TwoSignalLikelihood

SpecLayer == InitLayer /\ [][NextLayer]_vars

(***************************************************************************)
(* Spec: the loader's configuration calls.                                 *)
(***************************************************************************)
Init ==
    /\ x = NoInputs
    /\ out = NoOutput
    /\ self = NotConstructed
    /\ files = {}
    /\ ret = NoCall
    /\ feature_metadata = FeatureMetadata
    /\ keras_model = NoModel

Construct ==
    /\ ~self.constructed
    /\ \E feature_level \in FeatureLevels, decay_modes \in DecayModeArgs,
          variables \in VariablesArgs, noise_dimension_per_jet \in NoiseArgs,
          loss \in LossArgs, use_validation \in BOOLEAN :
         /\ self' = __init__(feature_level, decay_modes, variables,
                             noise_dimension_per_jet, loss, use_validation)
         /\ ret' = Return("__init__", [loss |-> loss], "None")
    /\ UNCHANGED <<x, out, files, feature_metadata, keras_model>>

SetLoss ==
    /\ self.constructed
    /\ ret = NoCall
    /\ \E value \in LossArgs :
         LET r == loss_setter(self, value)
         IN  self' = r.obj /\ ret' = r.ret
    /\ UNCHANGED <<x, out, files, feature_metadata, keras_model>>

GetLossFn ==
    /\ self.constructed
    /\ ret = NoCall
    /\ \E model_type \in ModelTypes :
         LET r == get_loss_fn(self, model_type)
             args == [model_type |-> model_type]
         IN  ret' = IF r.error # "none" THEN Raise("get_loss_fn", args, r.error)
                    ELSE Return("get_loss_fn", args, r.value)
    /\ UNCHANGED <<x, out, self, files, feature_metadata, keras_model>>

GetTrainConfig ==
    /\ self.constructed
    /\ ret = NoCall
    /\ \E model_type \in ModelTypes, weight_clipping \in BOOLEAN,
          epochs \in EpochArgs, model_save_freq \in SaveFreqs :
         LET r == get_train_config(self, model_type, weight_clipping, epochs, model_save_freq)
             args == [model_type |-> model_type, weight_clipping |-> weight_clipping,
                      epochs |-> epochs, model_save_freq |-> model_save_freq]
         IN  ret' = IF r.error # "none" THEN Raise("get_train_config", args, r.error)
                    ELSE Return("get_train_config", args, r.value)
    /\ UNCHANGED <<x, out, self, files, feature_metadata, keras_model>>

\* a further call would take the last dimension of jet_features past
\* MaxJetDim
JetDimBounded ==
    LET shape == feature_metadata["jet_features"].shape
    IN  shape[Len(shape)] + self.noise_dimension_per_jet <= MaxJetDim

GetSupervisedModelInputs ==
    /\ self.constructed
    /\ ret = NoCall
    /\ JetDimBounded
    /\ \E downcast \in BOOLEAN :
         LET r == get_supervised_model_inputs(self, feature_metadata, downcast)
         IN  /\ feature_metadata' = r.feature_metadata
             /\ ret' = Return("get_supervised_model_inputs", [downcast |-> downcast],
                              r.inputs)
    /\ UNCHANGED <<x, out, self, files, keras_model>>

\* the initial values get_semi_weakly_weights is called with
MassArgs == {Zero, Rat(3, 1)}
FractionArgs == {None, Zero, Half}

GetSemiWeaklyWeights ==
    /\ self.constructed
    /\ ret = NoCall
    /\ \E m1 \in MassArgs, m2 \in MassArgs, mu \in FractionArgs, alpha \in FractionArgs,
          use_regularizer \in BOOLEAN :
         ret' = Return("get_semi_weakly_weights",
                       [m1 |-> m1, m2 |-> m2, mu |-> mu, alpha |-> alpha,
                        use_regularizer |-> use_regularizer],
                       get_semi_weakly_weights(m1, m2, mu, alpha, use_regularizer))
    /\ UNCHANGED <<x, out, self, files, feature_metadata, keras_model>>

\* the caller takes the outcome of the last call
Done ==
    /\ ret # NoCall
    /\ ret' = NoCall
    /\ UNCHANGED <<x, out, self, files, feature_metadata, keras_model>>

Next ==
    \/ Construct
    \/ SetLoss
    \/ GetLossFn
    \/ GetTrainConfig
    \/ GetSemiWeaklyWeights
    \/ GetSupervisedModelInputs
    \/ Done

Spec == Init /\ [][Next]_vars

(***************************************************************************)
(* SpecBuild: a constructed loader builds a semi-weakly model.             *)
(***************************************************************************)
\* the loaders the builder is called on: the builder reads decay_modes and
\* the loss, the other attributes keep their defaults
InitBuild ==
    /\ x = NoInputs
    /\ out = NoOutput
    /\ \E decay_modes \in DecayModeArgs, loss \in LossArgs :
         self = __init__("high_level", decay_modes, None, 0, loss, TRUE)
    /\ files \in SUBSET PriorRatioFiles
    /\ ret = NoCall
    /\ feature_metadata = FeatureMetadata
    /\ keras_model = NoModel

GetSemiWeaklyModel ==
    /\ self.constructed
    /\ ret = NoCall
    /\ \E args \in BuildArgs :
         LET r == _get_semi_weakly_model(self, files, args)
         IN  self' = r.obj /\ ret' = r.ret
    /\ feature_metadata' = get_supervised_model_inputs(self, feature_metadata, TRUE).feature_metadata
    /\ UNCHANGED <<x, out, files, keras_model>>

NextBuild == GetSemiWeaklyModel

SpecBuild == InitBuild /\ [][NextBuild]_vars

(***************************************************************************)
(* SpecWeights: the weight setters applied to a Keras model.               *)
(***************************************************************************)
InitWeights ==
    /\ x = NoInputs
    /\ out = NoOutput
    /\ self = NotConstructed
    /\ files = {}
    /\ ret = NoCall
    /\ feature_metadata = FeatureMetadata
    /\ keras_model \in ModelArgs

SetSemiWeaklyModelWeights ==
    /\ ret = NoCall
    /\ \E m1 \in ValueArgs, m2 \in ValueArgs, mu \in ValueArgs, alpha \in ValueArgs :
         LET r == set_semi_weakly_model_weights(keras_model, m1, m2, mu, alpha)
             args == [m1 |-> m1, m2 |-> m2, mu |-> mu, alpha |-> alpha]
         IN  /\ keras_model' = r.model
             /\ ret' = IF r.error # "none"
                        THEN Raise("set_semi_weakly_model_weights", args, r.error)
                        ELSE Return("set_semi_weakly_model_weights", args, "None")
    /\ UNCHANGED <<x, out, self, files, feature_metadata>>

SetModelWeights ==
    /\ ret = NoCall
    /\ \E values \in ValuesArgs :
         LET r == set_model_weights(keras_model, values)
             args == [values |-> values]
         IN  /\ keras_model' = r.model
             /\ ret' = IF r.error # "none" THEN Raise("set_model_weights", args, r.error)
                        ELSE Return("set_model_weights", args, "None")
    /\ UNCHANGED <<x, out, self, files, feature_metadata>>

NextWeights ==
    \/ SetSemiWeaklyModelWeights
    \/ SetModelWeights
    \/ Done

SpecWeights == InitWeights /\ [][NextWeights]_vars

(***************************************************************************)
(* Properties of the layers, checked under SpecLayer.                      *)
(***************************************************************************)
OneSignalApplied == out.layer = "one_signal_semi_weakly"

TwoSignalApplied == out.layer = "two_signal_semi_weakly"

\* C2: with mu = 0 the one-signal weight is exactly 1/2, for bug_fix true
\* and false, whatever f_s and kappa are.
C2_ZeroMuGivesHalf ==
    (OneSignalApplied /\ x.mu = Zero) => out.value = Half

C2_Witness ==
    /\ OneSignalApplied
    /\ x.mu = Zero
    /\ out.bug_fix
    /\ FsOf(out.prong) = Rat(3, 4)
    /\ KappaOf(out.prong) = Rat(3, 2)
    /\ out.value = Half

\* C3: the two-signal layers with alpha = 1 equal the one-signal layers on
\* (f_s3, kappa_3), and with alpha = 0 the one-signal layers on
\* (f_s2, kappa_2); for the weight layers (either bug_fix) and for the
\* likelihood layers.
C3_TwoSignalReducesToOneSignal ==
    /\ (TwoSignalApplied /\ x.alpha = One) =>
          out.value = _get_one_signal_semi_weakly_layer(
                        x.fs_3, x.mu, x.kappa_3, x.epsilon, out.bug_fix)
    /\ (TwoSignalApplied /\ x.alpha = Zero) =>
          out.value = _get_one_signal_semi_weakly_layer(
                        x.fs_2, x.mu, x.kappa_2, x.epsilon, out.bug_fix)
    /\ (out.layer = "two_signal_likelihood" /\ x.alpha = One) =>
          out.value = _get_one_signal_likelihood_layer(
                        x.fs_3, x.mu, x.kappa_3, x.epsilon)
    /\ (out.layer = "two_signal_likelihood" /\ x.alpha = Zero) =>
          out.value = _get_one_signal_likelihood_layer(
                        x.fs_2, x.mu, x.kappa_2, x.epsilon)

C3_Witness ==
    /\ TwoSignalApplied
    /\ x.alpha = One
    /\ x.mu = Half
    /\ x.fs_2 # x.fs_3
    /\ x.kappa_2 # x.kappa_3
    /\ out.value = _get_one_signal_semi_weakly_layer(
                     x.fs_3, x.mu, x.kappa_3, x.epsilon, out.bug_fix)
    /\ out.value # _get_one_signal_semi_weakly_layer(
                     x.fs_2, x.mu, x.kappa_2, x.epsilon, out.bug_fix)

\* C4: for f_s strictly between 0 and 1 and mu in [0, 1], the one-signal
\* weight with bug_fix differs from the one without, except at mu = 0 where
\* the two are equal.
C4_BugFixDiffersExceptAtZeroMu ==
    (OneSignalApplied /\ FsOf(out.prong) # Zero /\ FsOf(out.prong) # One) =>
       LET other == _get_one_signal_semi_weakly_layer(
                      FsOf(out.prong), x.mu, KappaOf(out.prong), x.epsilon, ~out.bug_fix)
       IN  (out.value = other) <=> (x.mu = Zero)

C4_Witness ==
    /\ OneSignalApplied
    /\ out.bug_fix
    /\ FsOf(out.prong) = Half
    /\ x.mu = Half
    /\ IsFinite(out.value)
    /\ out.value # _get_one_signal_semi_weakly_layer(
                     FsOf(out.prong), x.mu, KappaOf(out.prong), x.epsilon, FALSE)

\* the inputs of the weight layer applied last: f_s below 1
FsBelowOne ==
    IF OneSignalApplied THEN FsOf(out.prong) # One
    ELSE x.fs_2 # One /\ x.fs_3 # One

\* the likelihood ratio mu multiplies in the weight layer applied last
MixedLLR ==
    IF OneSignalApplied THEN LLR(FsOf(out.prong), KappaOf(out.prong), x.epsilon)
    ELSE RAdd(RMul(x.alpha, LLR(x.fs_3, x.kappa_3, x.epsilon)),
              RMul(RSub(One, x.alpha), LLR(x.fs_2, x.kappa_2, x.epsilon)))

InUnitInterval(v) == IsFinite(v) /\ RLeq(Zero, v) /\ RLeq(v, One)

\* C5 as stated: for f_s in [0, 1), mu and alpha in [0, 1] and kappa > 0,
\* the one-signal and two-signal weights (either bug_fix) have a non-zero
\* denominator and lie in [0, 1].
C5_WeightInUnitInterval ==
    ((OneSignalApplied \/ TwoSignalApplied) /\ FsBelowOne) => InUnitInterval(out.value)

\* C5 amended: the same, except that with bug_fix, mu = 1 and a zero
\* (mixed) likelihood ratio the denominator LLR_xs + 1 - mu is zero and the
\* output is 0/0.
C5_WeightInUnitIntervalUnlessZeroOverZero ==
    ((OneSignalApplied \/ TwoSignalApplied) /\ FsBelowOne) =>
       IF out.bug_fix /\ x.mu = One /\ MixedLLR = Zero
       THEN IsNaN(out.value)
       ELSE InUnitInterval(out.value)

C5_Witness ==
    /\ TwoSignalApplied
    /\ FsBelowOne
    /\ out.bug_fix
    /\ x.mu = One
    /\ x.alpha = Half
    /\ MixedLLR # Zero
    /\ InUnitInterval(out.value)
    /\ out.value = One

(***************************************************************************)
(* Properties of the configuration calls, checked under Spec.              *)
(***************************************************************************)
NllCall ==
    /\ ret.op \in {"get_loss_fn", "get_train_config"}
    /\ self._loss = "nll"

Failed(error) == ret.status = "error" /\ ret.error = error

\* C9 as stated: with the nll loss and any model type other than
\* semi-weakly (prior-ratio, ideal-weakly, supervised or none given),
\* get_loss_fn and get_train_config fail with the domain-mismatch error.
C9_NllRejectsEveryOtherModelType ==
    (NllCall /\ ret.args.model_type # "semi_weakly") => Failed("RuntimeError")

\* C9 amended: with the nll loss, get_loss_fn fails with the domain-mismatch
\* error for every given model type other than semi-weakly, and
\* get_train_config does for every given model type other than semi-weakly
\* and prior-ratio; with no model type given both return (the NLL loss, a
\* config with it), and get_train_config returns the fixed MSE config for
\* the prior-ratio type.
C9_NllRejectsGivenOtherModelType ==
    NllCall =>
       LET model_type == ret.args.model_type
       IN  /\ (model_type \notin {"None", "semi_weakly", "prior_ratio"})
                => Failed("RuntimeError")
           /\ (model_type = "prior_ratio" /\ ret.op = "get_loss_fn")
                => Failed("RuntimeError")
           /\ (model_type = "prior_ratio" /\ ret.op = "get_train_config")
                => (ret.status = "ok" /\ ret.value.loss = "MSE")
           /\ (model_type = "None" /\ ret.op = "get_loss_fn")
                => (ret.status = "ok" /\ ret.value = "ScaledNLLLoss")
           /\ (model_type = "None" /\ ret.op = "get_train_config")
                => (ret.status = "ok" /\ ret.value.loss = "ScaledNLLLoss")

C9_Witness ==
    /\ NllCall
    /\ ret.op = "get_train_config"
    /\ ret.args.model_type = "ideal_weakly"
    /\ Failed("RuntimeError")

\* C10: a loss name that is not "bce" or "nll" after lower-casing is
\* rejected when the loader is constructed, so no constructed loader holds
\* such a name.
C10_ConstructedLossIsValid ==
    self.constructed => LossLower(self._loss) \in {"bce", "nll"}

(***************************************************************************)
(* Properties of the builder, checked under SpecBuild.                     *)
(***************************************************************************)
Built == ret.op = "get_semi_weakly_model"

\* mu and alpha are supplied, as the builder's signature types them
ParamsGiven == ret.args.mu_given /\ ret.args.alpha_given

TwoSignalState == Len(self.decay_modes) = 2

\* a kappa the builder can resolve for the supervised model at `path`
Resolvable(val, path) == get_kappa_out(val, path, "None", files).error = "none"

\* fs_model_path is one path, as get_semi_weakly_model types it
SinglePath == ret.args.fs_model_path.type = "str"

ResolvableKappa ==
    LET ks == kappa_2_3(ret.args.kappa)
    IN  /\ ks.error = "none"
        /\ Resolvable(ks.kappa_2, ret.args.fs_model_path)
        /\ Resolvable(ks.kappa_3, PathStr(FsModelPath2))

\* C1: in the two-signal state, with a second supervised-model path and a
\* resolvable kappa, the build completes and records the weight model, the
\* two likelihood-ratio models and the two supervised sub-models.
C1_TwoSignalBuildRecordsFiveArtifacts ==
    (Built /\ TwoSignalState /\ ParamsGiven /\ ret.args.fs_model_path_2 # None
       /\ ResolvableKappa) =>
       /\ ret.status = "ok"
       /\ ret.value.name = "SemiWeakly"
       /\ DOMAIN self.artifacts = {"llr_2_model", "llr_3_model", "fs_2_model", "fs_3_model"}

\* C6: in the two-signal state without a second supervised-model path the
\* build fails with ValueError before any file is loaded or looked for.
C6_MissingSecondPathFailsBeforeIO ==
    (Built /\ TwoSignalState /\ ParamsGiven /\ ret.args.fs_model_path_2 = None) =>
       /\ Failed("ValueError")
       /\ ret.io = <<>>
       /\ ret.kappa_outs = <<>>

C6_Witness ==
    /\ Built /\ TwoSignalState /\ ParamsGiven
    /\ ret.args.fs_model_path_2 = None
    /\ ret.args.kappa = [type |-> "str", fields |-> <<"Inferred">>]
    /\ files = {}
    /\ Failed("ValueError")
    /\ ret.io = <<>>

\* the layers of a loaded model after freeze_all_layers
FrozenLayers ==
    <<[name |-> "dense", trainable |-> FALSE], [name |-> "dense_1", trainable |-> FALSE]>>

\* the kappa one token resolves to for the supervised model in `dir`
ResolvedToken(a, dir, name) ==
    IF IsNumeric(a) THEN [kind |-> "float", val |-> FloatOf(a)]
    ELSE [kind |-> "tensor",
          model |-> [path |-> <<dir, Lower(a)>>, name |-> name, layers |-> FrozenLayers],
          input |-> "mass_params"]

\* a token that resolves for the supervised model in `dir`
TokenResolves(a, dir) ==
    IsNumeric(a) \/ (Lower(a) \in {"inferred", "sampled"} /\ <<dir, Lower(a)>> \in files)

\* the two-signal branch was entered with a string kappa
TwoSignalStringKappa ==
    /\ Built /\ TwoSignalState /\ ParamsGiven /\ SinglePath
    /\ ret.args.fs_model_path_2 # None
    /\ ret.args.kappa.type = "str"

\* the non-empty comma-separated tokens of the kappa string
KappaTokens == SelectSeq(ret.args.kappa.fields, LAMBDA a : a # "")

\* C7: in the two-signal state with a string kappa, one token is the kappa
\* of both decay modes, two tokens are the kappa of the two-prong and of the
\* three-prong mode in this order, and any other number of tokens fails with
\* ValueError before a kappa is resolved or a model is loaded.
C7_KappaTokensPerDecayMode ==
    TwoSignalStringKappa =>
       LET tokens == KappaTokens
           first == tokens[1]
           last == tokens[Len(tokens)]
       IN  IF Len(tokens) \notin {1, 2}
           THEN Failed("ValueError") /\ ret.io = <<>> /\ ret.kappa_outs = <<>>
           ELSE /\ (TokenResolves(first, "dirA") /\ TokenResolves(last, "dirB"))
                     => Len(ret.kappa_outs) = 2
                /\ Len(ret.kappa_outs) >= 1
                     => ret.kappa_outs[1] = ResolvedToken(first, "dirA", "PriorRatioNet_2")
                /\ Len(ret.kappa_outs) = 2
                     => ret.kappa_outs[2] = ResolvedToken(last, "dirB", "PriorRatioNet_3")

C7_Witness ==
    /\ TwoSignalStringKappa
    /\ KappaTokens = <<"2", "sampled">>
    /\ Len(ret.kappa_outs) = 2
    /\ ret.kappa_outs[1].kind = "float"
    /\ ret.kappa_outs[2].kind = "tensor"

\* the kappa spec is "inferred" or "sampled" (in any case of the letters)
SymbolicKappa ==
    /\ ret.args.kappa.type = "str"
    /\ Len(ret.args.kappa.fields) = 1
    /\ Lower(ret.args.kappa.fields[1]) \in {"inferred", "sampled"}

\* the prior-ratio files the build needs for a symbolic kappa
SiblingFiles ==
    LET val == Lower(ret.args.kappa.fields[1])
    IN  {<<"dirA", val>>} \cup
        (IF TwoSignalState /\ ret.args.fs_model_path_2 # None
         THEN {<<"dirB", val>>} ELSE {})

\* C8: with a symbolic kappa and a missing sibling prior-ratio file the
\* build never returns a model and, when it reaches the kappa resolution,
\* fails there with FileNotFoundError; with the file present the resolved
\* kappa is the loaded, frozen prior-ratio model evaluated on the mass
\* parameters.
C8_SymbolicKappaNeedsSiblingFile ==
    (Built /\ SymbolicKappa /\ SinglePath) =>
       LET val == Lower(ret.args.kappa.fields[1])
           reached == ParamsGiven /\ (TwoSignalState => ret.args.fs_model_path_2 # None)
           tensor(dir, name) ==
               [kind |-> "tensor",
                model |-> [path |-> <<dir, val>>, name |-> name, layers |-> FrozenLayers],
                input |-> "mass_params"]
       IN  /\ ~(SiblingFiles \subseteq files) => ret.status = "error"
           /\ (reached /\ ~(SiblingFiles \subseteq files)) =>
                 /\ Failed("FileNotFoundError")
                 /\ ret.io[Len(ret.io)].call = "exists"
                 /\ ret.io[Len(ret.io)].path \in SiblingFiles \ files
           /\ (reached /\ SiblingFiles \subseteq files /\ ~TwoSignalState) =>
                 /\ ret.status = "ok"
                 /\ ret.kappa_outs = <<tensor("dirA", "PriorRatioNet")>>
                 /\ ret.value.output.kappa = tensor("dirA", "PriorRatioNet")
           /\ (reached /\ SiblingFiles \subseteq files /\ TwoSignalState) =>
                 ret.kappa_outs = <<tensor("dirA", "PriorRatioNet_2"),
                                    tensor("dirB", "PriorRatioNet_3")>>

C8_Witness ==
    /\ Built /\ SymbolicKappa /\ ParamsGiven /\ SinglePath
    /\ ~TwoSignalState
    /\ ret.args.kappa.fields = <<"Inferred">>
    /\ <<"dirA", "inferred">> \notin files
    /\ <<"dirA", "sampled">> \in files
    /\ Failed("FileNotFoundError")

(***************************************************************************)
(* Properties of get_train_config, checked under Spec.                     *)
(***************************************************************************)
\* get_train_config returned a config
ConfigReturned == ret.op = "get_train_config" /\ ret.status = "ok"

\* C14: in every config returned, for every model type (the prior-ratio
\* type included), the early-stopping monitor is "val_loss" when
\* use_validation is true and "loss" otherwise.
C14_MonitorFollowsUseValidation ==
    ConfigReturned =>
       ret.value.callbacks["early_stopping"].monitor =
          (IF self.use_validation THEN "val_loss" ELSE "loss")

\* the callbacks of a config without its model_checkpoint entry
OtherCallbacks(callbacks) ==
    [k \in DOMAIN callbacks \ {"model_checkpoint"} |-> callbacks[k]]

\* C15: for supervised and semi-weakly model types the callbacks have no
\* model_checkpoint entry when the model save frequency is "train", and one
\* carrying the requested save frequency otherwise; the other callback
\* entries are those of the config built with another save frequency.
C15_CheckpointOmittedForTrainSaveMode ==
    (ConfigReturned /\ ret.args.model_type \in {"dedicated_supervised", "semi_weakly"}) =>
       LET callbacks == ret.value.callbacks
           freq == ret.args.model_save_freq
       IN  /\ ("model_checkpoint" \in DOMAIN callbacks) <=> (freq # "train")
           /\ (freq # "train") => callbacks["model_checkpoint"].save_freq = freq
           /\ \A other \in SaveFreqs :
                OtherCallbacks(callbacks) =
                   OtherCallbacks(get_train_config(self, ret.args.model_type,
                                    ret.args.weight_clipping, ret.args.epochs,
                                    other).value.callbacks)

C15_Witness ==
    /\ ConfigReturned
    /\ ret.args.model_type = "semi_weakly"
    /\ ret.args.model_save_freq = "train"
    /\ DOMAIN ret.value.callbacks =
          {"lr_scheduler", "early_stopping", "metrics_logger", "weights_logger"}

\* C16: the config has a weights_logger entry for the semi-weakly type and
\* for no other, and for the semi-weakly type the early-stopping patience
\* is 30 with the nll loss and 20 otherwise, at either feature level.
C16_SemiWeaklyLoggerAndPatience ==
    ConfigReturned =>
       LET callbacks == ret.value.callbacks
           semi == ret.args.model_type = "semi_weakly"
       IN  /\ ("weights_logger" \in DOMAIN callbacks) <=> semi
           /\ semi => callbacks["early_stopping"].patience =
                         (IF self._loss = "nll" THEN 30 ELSE 20)

C16_Witness ==
    /\ ConfigReturned
    /\ ret.args.model_type = "semi_weakly"
    /\ self.feature_level = "low_level"
    /\ self._loss = "nll"
    /\ "weights_logger" \in DOMAIN ret.value.callbacks
    /\ ret.value.callbacks["early_stopping"].patience = 30

\* the optimizer_config of the same call made without weight_clipping
UnclippedOptimizerConfig ==
    get_train_config(self, ret.args.model_type, FALSE, ret.args.epochs,
                     ret.args.model_save_freq).value.optimizer_config

\* a < b, for finite a and b
RLess(a, b) == a[1] * b[2] < b[1] * a[2]

ClippingKeys(optimizer_config) ==
    DOMAIN optimizer_config \cap {"clipvalue", "clipnorm"}

\* C17 as stated: for the semi-weakly type, with weight_clipping the
\* learning rate is strictly smaller than without and clipvalue and
\* clipnorm are both 1e-4; without weight_clipping the config has neither.
C17_ClippingTightensLearningRate ==
    (ConfigReturned /\ ret.args.model_type = "semi_weakly") =>
       LET optimizer_config == ret.value.optimizer_config
       IN  IF ret.args.weight_clipping
           THEN /\ RLess(optimizer_config.learning_rate,
                         UnclippedOptimizerConfig.learning_rate)
                /\ ClippingKeys(optimizer_config) = {"clipvalue", "clipnorm"}
                /\ optimizer_config.clipvalue = Rat(1, 10000)
                /\ optimizer_config.clipnorm = Rat(1, 10000)
           ELSE ClippingKeys(optimizer_config) = {}

\* C17 amended: the same, with the learning rate equal to the one without
\* weight_clipping (0.01 in both).
C17_ClippingKeepsLearningRate ==
    (ConfigReturned /\ ret.args.model_type = "semi_weakly") =>
       LET optimizer_config == ret.value.optimizer_config
       IN  IF ret.args.weight_clipping
           THEN /\ optimizer_config.learning_rate = UnclippedOptimizerConfig.learning_rate
                /\ optimizer_config.learning_rate = Rat(1, 100)
                /\ ClippingKeys(optimizer_config) = {"clipvalue", "clipnorm"}
                /\ optimizer_config.clipvalue = Rat(1, 10000)
                /\ optimizer_config.clipnorm = Rat(1, 10000)
           ELSE ClippingKeys(optimizer_config) = {}

C17_Witness ==
    /\ ConfigReturned
    /\ ret.args.model_type = "semi_weakly"
    /\ ret.args.weight_clipping
    /\ ret.value.optimizer_config =
          [learning_rate |-> Rat(1, 100), clipvalue |-> Rat(1, 10000),
           clipnorm |-> Rat(1, 10000)]

(***************************************************************************)
(* Properties of the parameter models (C11, under Spec) and of the models  *)
(* the builder returns (under SpecBuild).                                  *)
(***************************************************************************)
WeightsReturned == ret.op = "get_semi_weakly_weights" /\ ret.status = "ok"

\* C11: the mapping get_semi_weakly_weights returns has the keys m1 and m2,
\* the key mu exactly when mu is not None, the key alpha exactly when alpha
\* is not None, and no other key; each parameter model has a regularizer
\* exactly when use_regularizer is true.
C11_WeightsKeysAndRegularizers ==
    WeightsReturned =>
       LET weights == ret.value
       IN  /\ {"m1", "m2"} \subseteq DOMAIN weights
           /\ ("mu" \in DOMAIN weights) <=> (ret.args.mu # None)
           /\ ("alpha" \in DOMAIN weights) <=> (ret.args.alpha # None)
           /\ DOMAIN weights \subseteq {"m1", "m2", "mu", "alpha"}
           /\ \A parameter \in DOMAIN weights :
                (weights[parameter].kernel_regularizer # None) <=> ret.args.use_regularizer

C11_Witness ==
    /\ WeightsReturned
    /\ ret.args.mu = Zero
    /\ ret.args.alpha = None
    /\ ret.args.use_regularizer
    /\ DOMAIN ret.value = {"m1", "m2", "mu"}
    /\ ret.value["mu"].kernel_regularizer # None

\* C12 (under SpecBuild): a build with mu or alpha absent does not fail on
\* the missing entry of the parameter mapping.
C12_BuildToleratesAbsentMuOrAlpha ==
    (Built /\ ~ParamsGiven) => ~Failed("KeyError")

\* the names of the kernels of the four parameter models
ParameterKernels == {<<parameter, "kernel:0">> : parameter \in ParameterNames}

\* the inputs with which a build has nothing to fail on
BuildInputsValid ==
    /\ ParamsGiven
    /\ IF TwoSignalState
       THEN ret.args.fs_model_path_2 # None /\ ResolvableKappa
       ELSE Resolvable(ret.args.kappa, ret.args.fs_model_path)

\* C18 (under SpecBuild): a build returns a model whose output is the
\* weight transform when the loader's loss is bce and the likelihood
\* transform when it is nll, in the one-signal and in the two-signal state.
C18_OutputTransformFollowsLoss ==
    (Built /\ BuildInputsValid /\ self._loss \in {"bce", "nll"}) =>
       /\ ret.status = "ok"
       /\ ret.value.output.layer =
             (IF TwoSignalState
              THEN (IF self._loss = "nll" THEN "two_signal_likelihood"
                    ELSE "two_signal_semi_weakly")
              ELSE (IF self._loss = "nll" THEN "one_signal_likelihood"
                    ELSE "one_signal_semi_weakly"))

\* the ensembles of prior models a built model averages
Ensembles(ws_model) ==
    IF "fs_out" \in DOMAIN ws_model.output
    THEN {ws_model.output.fs_out.of}
    ELSE {ws_model.output.fs_2_out.of, ws_model.output.fs_3_out.of}

\* C19 (under SpecBuild): in a built model every layer of every loaded
\* model (supervised or prior-ratio) is non-trainable, the prior models of
\* one ensemble are named "<name>_<i>" with distinct i, and the trainable
\* weights are kernels of the parameter models m1, m2, mu and alpha only.
C19_OnlyParameterKernelsTrainable ==
    (Built /\ ret.status = "ok") =>
       LET ws_model == ret.value
       IN  /\ \A i \in DOMAIN ws_model.models :
                \A j \in DOMAIN ws_model.models[i].layers :
                   ~ws_model.models[i].layers[j].trainable
           /\ \A prior_models \in Ensembles(ws_model) :
                \A i, j \in DOMAIN prior_models :
                   /\ prior_models[i].name[2] = i
                   /\ i # j => prior_models[i].name # prior_models[j].name
           /\ ws_model.trainable_weights \subseteq ParameterKernels

C19_Witness ==
    /\ Built /\ ret.status = "ok"
    /\ ret.args.fs_model_path.type = "list"
    /\ Len(ret.value.output.fs_out.of) = 2
    /\ ret.value.output.fs_out.of[1].name = <<"prior", 1>>
    /\ ret.value.output.fs_out.of[2].name = <<"prior", 2>>
    /\ ret.value.trainable_weights =
          {<<"m1", "kernel:0">>, <<"m2", "kernel:0">>, <<"mu", "kernel:0">>}

(***************************************************************************)
(* Properties of the weight setters, checked under SpecWeights.            *)
(***************************************************************************)
\* C13: setting a weight by a name the model does not recognize fails with
\* RuntimeError: in set_semi_weakly_model_weights when a trainable weight of
\* the model is not one of the four parameter kernels, in set_model_weights
\* when the values mapping names a weight the model does not have.
C13_UnknownWeightNamesFail ==
    LET weights == keras_model.trainable_weights
    IN  /\ (ret.op = "set_semi_weakly_model_weights"
              /\ \E i \in DOMAIN weights : weights[i].name \notin ParameterKernels)
             => Failed("RuntimeError")
        /\ (ret.op = "set_model_weights" /\ ret.args.values.type = "dict"
              /\ \E name \in DOMAIN ret.args.values.items :
                    \A i \in DOMAIN weights : weights[i].name[1] # name)
             => Failed("RuntimeError")

(***************************************************************************)
(* Properties of get_supervised_model_inputs, checked under Spec.          *)
(***************************************************************************)
\* C20: get_supervised_model_inputs leaves the caller's feature_metadata as
\* it was, and every call returns the inputs the first call would return.
C20_FeatureMetadataUnchanged ==
    /\ feature_metadata = FeatureMetadata
    /\ ret.op = "get_supervised_model_inputs" =>
          ret.value = get_supervised_model_inputs(self, FeatureMetadata,
                                                  ret.args.downcast).inputs

(***************************************************************************)
(* Properties of the artifacts of a build, under SpecBuild.                *)
(***************************************************************************)
\* C21: after a single-signal build, llr_model computes the likelihood
\* ratio of the model's output transform: from the same supervised output,
\* with the same kappa and with the epsilon passed to the builder.
C21_LlrModelUsesBuilderEpsilon ==
    (Built /\ ret.status = "ok" /\ ~TwoSignalState) =>
       LET llr_model == self.artifacts["llr_model"]
           ws_out == ret.value.output
       IN  /\ llr_model.fs_out = ws_out.fs_out
           /\ llr_model.kappa = ws_out.kappa
           /\ ws_out.epsilon = ret.args.epsilon
           /\ llr_model.epsilon = ws_out.epsilon

====
